---- MODULE Spec2Model ----
(***************************************************************************)
(* Model of package consts (src/consts/basic.go): the constructors NewInt  *)
(* and NewFloat, and the String methods of Int and Float.                  *)
(*                                                                         *)
(* A Go string is a sequence of one-character strings.  A uint64 is four   *)
(* 16-bit limbs, least significant first, so that 64-bit arithmetic keeps  *)
(* its width.  The strconv routines the package calls (ParseInt,           *)
(* FormatInt, ParseFloat, FormatFloat) are modelled by the algorithms of   *)
(* the Go library: digit-by-digit accumulation with the overflow cutoffs   *)
(* for integers, and the exact multiprecision decimal conversion           *)
(* (decimal.floatBits, roundShortest, fmtE, fmtF) for floating point.      *)
(***************************************************************************)
EXTENDS Integers, Sequences, FiniteSets, TLC

VARIABLES typ, s, fn, pc, ret, str, first, round

vars == <<typ, s, fn, pc, ret, str, first, round>>

(***************************************************************************)
(* Bounds of the model.                                                    *)
(***************************************************************************)
\* longest literal drawn from Alphabet
MaxLen == 2
\* how many times a formatted constant is fed back to its constructor
MaxRounds == 1

(***************************************************************************)
(* Characters and strings.                                                 *)
(***************************************************************************)
DigitChars == <<"0", "1", "2", "3", "4", "5", "6", "7", "8", "9">>

IsDigit(c) == \E i \in 1..10 : DigitChars[i] = c

DigitVal(c) == (CHOOSE i \in 1..10 : DigitChars[i] = c) - 1

DigitChar(d) == DigitChars[d + 1]

\* strings.ContainsRune / strings.IndexByte: first position of c in t, 0 if none
IndexByte(t, c) ==
    IF \E i \in 1..Len(t) : t[i] = c
    THEN CHOOSE i \in 1..Len(t) : t[i] = c /\ \A j \in 1..(i - 1) : t[j] # c
    ELSE 0

Contains(t, c) == \E i \in 1..Len(t) : t[i] = c

\* ASCII lower-casing of the letters that matter to strconv
Lower(c) ==
    CASE c = "I" -> "i" [] c = "N" -> "n" [] c = "F" -> "f" [] c = "A" -> "a"
      [] c = "T" -> "t" [] c = "Y" -> "y" [] c = "E" -> "e" [] c = "X" -> "x"
      [] OTHER -> c

LowerStr(t) == [i \in 1..Len(t) |-> Lower(t[i])]

\* decimal text of a small natural number (type widths, exponents)
RECURSIVE NatText(_)
NatText(n) == IF n < 10 THEN <<DigitChar(n)>>
              ELSE NatText(n \div 10) \o <<DigitChar(n % 10)>>

(***************************************************************************)
(* uint64 as four 16-bit limbs, least significant first.                   *)
(***************************************************************************)
LimbBase == 2 ^ 16

U64Zero == <<0, 0, 0, 0>>

U64Small(n) == <<n, 0, 0, 0>>

\* n*m + a for small m and a: the 64-bit result and what overflowed
MulAdd(n, m, a) ==
    LET t0 == (n[1] * m) + a
        t1 == (n[2] * m) + (t0 \div LimbBase)
        t2 == (n[3] * m) + (t1 \div LimbBase)
        t3 == (n[4] * m) + (t2 \div LimbBase)
    IN  [val   |-> <<t0 % LimbBase, t1 % LimbBase, t2 % LimbBase, t3 % LimbBase>>,
         carry |-> t3 \div LimbBase]

\* n / 10 and n % 10
DivMod10(n) ==
    LET t3 == n[4]
        t2 == ((t3 % 10) * LimbBase) + n[3]
        t1 == ((t2 % 10) * LimbBase) + n[2]
        t0 == ((t1 % 10) * LimbBase) + n[1]
    IN  [q |-> <<t0 \div 10, t1 \div 10, t2 \div 10, t3 \div 10>>, r |-> t0 % 10]

\* a < b
U64Less(a, b) ==
    \E i \in 1..4 : a[i] < b[i] /\ \A j \in (i + 1)..4 : a[j] = b[j]

\* 1 << k, 0 <= k <= 63
U64Pow2(k) == [i \in 1..4 |-> IF (k \div 16) + 1 = i THEN 2 ^ (k % 16) ELSE 0]

\* 1<<bitSize - 1, 1 <= bitSize <= 64
U64MaxVal(bitSize) ==
    [i \in 1..4 |->
        IF 16 * i <= bitSize THEN LimbBase - 1
        ELSE IF 16 * (i - 1) < bitSize THEN 2 ^ (bitSize - 16 * (i - 1)) - 1
        ELSE 0]

U64IsOdd(n) == n[1] % 2 = 1

\* n << 1 (the top bit is dropped) and n >> 1
U64Shl1(n) ==
    [i \in 1..4 |-> ((2 * n[i]) % LimbBase)
                    + (IF i > 1 /\ n[i - 1] >= LimbBase \div 2 THEN 1 ELSE 0)]

U64Shr1(n) ==
    [i \in 1..4 |-> (n[i] \div 2)
                    + (IF i < 4 /\ n[i + 1] % 2 = 1 THEN LimbBase \div 2 ELSE 0)]

RECURSIVE U64Shl(_, _)
U64Shl(n, k) == IF k = 0 THEN n ELSE U64Shl(U64Shl1(n), k - 1)

RECURSIVE U64Shr(_, _)
U64Shr(n, k) == IF k = 0 THEN n ELSE U64Shr(U64Shr1(n), k - 1)

\* n + 1 and n - 1 (no wrap-around is needed by the callers)
U64Inc(n) ==
    [i \in 1..4 |->
        IF \A j \in 1..(i - 1) : n[j] = LimbBase - 1
        THEN (n[i] + 1) % LimbBase ELSE n[i]]

U64Dec(n) ==
    [i \in 1..4 |->
        IF \A j \in 1..(i - 1) : n[j] = 0
        THEN (n[i] + LimbBase - 1) % LimbBase ELSE n[i]]

(***************************************************************************)
(* strconv.ParseUint(s, 10, bitSize) and strconv.ParseInt(s, 10, bitSize). *)
(* The result is [err, n]: err is "" (nil), "invalid syntax" (ErrSyntax)   *)
(* or "value out of range" (ErrRange).                                     *)
(***************************************************************************)
ErrNone == ""
ErrSyntax == "invalid syntax"
ErrRange == "value out of range"

\* the digit loop of ParseUint, from character i with n accumulated
RECURSIVE ParseUintLoop(_, _, _, _)
ParseUintLoop(t, i, n, maxVal) ==
    IF i > Len(t) THEN [err |-> ErrNone, n |-> n]
    ELSE IF ~IsDigit(t[i]) THEN [err |-> ErrSyntax, n |-> U64Zero]
    ELSE LET n1 == MulAdd(n, 10, DigitVal(t[i]))
         IN  IF n1.carry > 0 \/ U64Less(maxVal, n1.val)
             THEN [err |-> ErrRange, n |-> maxVal]
             ELSE ParseUintLoop(t, i + 1, n1.val, maxVal)

ParseUint(t, bitSize) ==
    IF t = <<>> THEN [err |-> ErrSyntax, n |-> U64Zero]
    ELSE ParseUintLoop(t, 1, U64Zero, U64MaxVal(bitSize))

\* an int64 as sign and magnitude; -0 is 0
Int64(neg, un) == [neg |-> neg /\ un # U64Zero, mag |-> un]

Int64Zero == Int64(FALSE, U64Zero)

\* ParseInt with the negative cutoff off by one: -2^(bitSize-1) is refused
ParseIntOffByOne(t, bitSize) ==
    IF t = <<>> THEN [err |-> ErrSyntax, x |-> Int64Zero]
    ELSE
      LET neg    == t[1] = "-"
          body   == IF t[1] = "+" \/ t[1] = "-" THEN Tail(t) ELSE t
          u      == ParseUint(body, bitSize)
          cutoff == U64Pow2(bitSize - 1)
      IN  IF u.err = ErrSyntax THEN [err |-> ErrSyntax, x |-> Int64Zero]
          ELSE IF ~U64Less(u.n, cutoff)
               THEN [err |-> ErrRange, x |-> Int64(neg, cutoff)]
          ELSE [err |-> ErrNone, x |-> Int64(neg, u.n)]

ParseInt(t, bitSize) ==
    IF t = <<>> THEN [err |-> ErrSyntax, x |-> Int64Zero]
    ELSE
      LET neg    == t[1] = "-"
          body   == IF t[1] = "+" \/ t[1] = "-" THEN Tail(t) ELSE t
          u      == ParseUint(body, bitSize)
          cutoff == U64Pow2(bitSize - 1)
      IN  \* a range error of ParseUint carries on with un = maxVal
          IF u.err = ErrSyntax THEN [err |-> ErrSyntax, x |-> Int64Zero]
          ELSE IF ~neg /\ ~U64Less(u.n, cutoff)
               THEN [err |-> ErrRange, x |-> Int64(FALSE, U64Dec(cutoff))]
          ELSE IF neg /\ U64Less(cutoff, u.n)
               THEN [err |-> ErrRange, x |-> Int64(TRUE, cutoff)]
          ELSE [err |-> ErrNone, x |-> Int64(neg, u.n)]

(***************************************************************************)
(* strconv.FormatUint(u, 10) and strconv.FormatInt(i, 10).                 *)
(***************************************************************************)
RECURSIVE FormatUint(_)
FormatUint(u) ==
    LET qr == DivMod10(u)
    IN  IF qr.q = U64Zero THEN <<DigitChar(qr.r)>>
        ELSE FormatUint(qr.q) \o <<DigitChar(qr.r)>>

FormatInt(x) == (IF x.neg THEN <<"-">> ELSE <<>>) \o FormatUint(x.mag)

(***************************************************************************)
(* Type descriptors (package types).  Only the kind, the bit width and the *)
(* text of a type matter here.                                             *)
(***************************************************************************)
IntType(size) == [kind |-> "int", size |-> size]
FloatType(size) == [kind |-> "float", size |-> size]
PointerType == [kind |-> "pointer", size |-> 0]

\* types.Type.String(): i1, i32, float, double, ...
TypeText(ty) ==
    CASE ty.kind = "int" -> <<"i">> \o NatText(ty.size)
      [] ty.kind = "float" /\ ty.size = 32 -> <<"f", "l", "o", "a", "t">>
      [] ty.kind = "float" /\ ty.size = 64 -> <<"d", "o", "u", "b", "l", "e">>
      [] ty.kind = "float" /\ ty.size = 16 -> <<"h", "a", "l", "f">>
      [] ty.kind = "float" /\ ty.size = 128 -> <<"f", "p", "1", "2", "8">>
      [] OTHER -> <<"p", "t", "r">>

(***************************************************************************)
(* What a call hands back.  status is "ok" (constant, nil), "error" (nil,  *)
(* error) or "panic".  msg is the format string of the error or panic and  *)
(* cause the strconv error it wraps; c is the constant.                    *)
(***************************************************************************)
NoConst == [variant |-> "none", typ |-> PointerType, x |-> Int64Zero]

Ok(c) == [status |-> "ok", msg |-> "", cause |-> ErrNone, c |-> c]

Error(msg, cause) == [status |-> "error", msg |-> msg, cause |-> cause, c |-> NoConst]

Panic(msg) == [status |-> "panic", msg |-> msg, cause |-> ErrNone, c |-> NoConst]

NoCall == [status |-> "none", msg |-> "", cause |-> ErrNone, c |-> NoConst]

IntConst(ty, x) == [variant |-> "Int", typ |-> ty, x |-> x]

MsgIntType == "invalid type %q for integer constant"
MsgIntWidth == "not yet implemented; support for %q integer constants (e.g. above 64-bits)"
MsgIntBool == "invalid integer constant %q for boolean type"
MsgIntMismatch == "integer constant %q type mismatch; expected i1, got %v"
MsgIntParse == "unable to parse integer constant %q; %v"

LitTrue == <<"t", "r", "u", "e">>
LitFalse == <<"f", "a", "l", "s", "e">>

\* NewInt without the check of the boolean keywords against wider types
NewIntParseFirst(ty, t) ==
    IF ty.kind # "int" THEN Error(MsgIntType, ErrNone)
    ELSE IF ty.size > 64 THEN Panic(MsgIntWidth)
    ELSE IF ty.size = 1 THEN
         IF t = <<"1">> \/ t = LitTrue THEN Ok(IntConst(ty, Int64(FALSE, U64Small(1))))
         ELSE IF t = <<"0">> \/ t = LitFalse THEN Ok(IntConst(ty, Int64Zero))
         ELSE Error(MsgIntBool, ErrNone)
    ELSE LET r == ParseInt(t, ty.size)
         IN  IF r.err # ErrNone THEN Error(MsgIntParse, r.err)
             ELSE Ok(IntConst(ty, r.x))

(***************************************************************************)
(* NewInt(typ, s)                                                          *)
(***************************************************************************)
NewInt(ty, t) ==
    IF ty.kind # "int" THEN Error(MsgIntType, ErrNone)
    ELSE IF ty.size > 64 THEN Panic(MsgIntWidth)
    ELSE IF ty.size = 1 THEN
         IF t = <<"1">> \/ t = LitTrue THEN Ok(IntConst(ty, Int64(FALSE, U64Small(1))))
         ELSE IF t = <<"0">> \/ t = LitFalse THEN Ok(IntConst(ty, Int64Zero))
         ELSE Error(MsgIntBool, ErrNone)
    ELSE IF t = LitTrue \/ t = LitFalse THEN Error(MsgIntMismatch, ErrNone)
    ELSE LET r == ParseInt(t, ty.size)
         IN  IF r.err # ErrNone THEN Error(MsgIntParse, r.err)
             ELSE Ok(IntConst(ty, r.x))

(***************************************************************************)
(* Int.Type and Int.String                                                 *)
(***************************************************************************)
ConstType(c) == c.typ

\* Int.String without the boolean branch: an i1 is printed as a number
IntStringNumeric(c) == TypeText(ConstType(c)) \o <<" ">> \o FormatInt(c.x)

IntString(c) ==
    LET text == IF c.typ.size = 1
                THEN (IF c.x = Int64(FALSE, U64Small(1)) THEN LitTrue ELSE LitFalse)
                ELSE FormatInt(c.x)
    IN  TypeText(ConstType(c)) \o <<" ">> \o text

(***************************************************************************)
(* strconv's multiprecision decimal: the value 0.d[1]d[2]...d[n] * 10^dp,  *)
(* d a sequence of digits without leading or trailing zeros (<<>> is 0).   *)
(***************************************************************************)
DecZero == [d |-> <<>>, dp |-> 0]

\* decimal.trim: drop trailing zeros
DecTrim(a) ==
    IF \A i \in 1..Len(a.d) : a.d[i] = 0 THEN DecZero
    ELSE LET last == CHOOSE i \in 1..Len(a.d) :
                        a.d[i] # 0 /\ \A j \in (i + 1)..Len(a.d) : a.d[j] = 0
         IN  [d |-> SubSeq(a.d, 1, last), dp |-> a.dp]

\* a / 2
DecHalf(a) ==
    IF a.d = <<>> THEN a
    ELSE LET n  == Len(a.d)
             h  == [i \in 1..(n + 1) |->
                      ((IF i <= n THEN a.d[i] ELSE 0)
                       + 10 * (IF i > 1 THEN a.d[i - 1] % 2 ELSE 0)) \div 2]
             lo == IF h[1] = 0 THEN 2 ELSE 1
             hi == IF h[n + 1] = 0 THEN n ELSE n + 1
         IN  [d |-> SubSeq(h, lo, hi), dp |-> a.dp - (lo - 1)]

\* a * 2
DecDouble(a) ==
    IF a.d = <<>> THEN a
    ELSE LET n    == Len(a.d)
             t    == [i \in 1..n |->
                        ((2 * a.d[i]) % 10)
                        + (IF i < n /\ a.d[i + 1] >= 5 THEN 1 ELSE 0)]
             lead == a.d[1] >= 5
             hi   == IF t[n] = 0 THEN n - 1 ELSE n
         IN  [d  |-> (IF lead THEN <<1>> ELSE <<>>) \o SubSeq(t, 1, hi),
              dp |-> a.dp + (IF lead THEN 1 ELSE 0)]

\* eight bits at once
DecHalf8(a) == DecHalf(DecHalf(DecHalf(DecHalf(DecHalf(DecHalf(DecHalf(DecHalf(a))))))))

DecDouble8(a) ==
    DecDouble(DecDouble(DecDouble(DecDouble(DecDouble(DecDouble(DecDouble(DecDouble(a))))))))

\* decimal.Shift: a * 2^k
RECURSIVE DecShift(_, _)
DecShift(a, k) ==
    IF k = 0 \/ a.d = <<>> THEN a
    ELSE IF k >= 8 THEN DecShift(DecDouble8(a), k - 8)
    ELSE IF k > 0 THEN DecShift(DecDouble(a), k - 1)
    ELSE IF k <= 0 - 8 THEN DecShift(DecHalf8(a), k + 8)
    ELSE DecShift(DecHalf(a), k + 1)

\* the decimal digits of a uint64, most significant first
RECURSIVE U64Digits(_)
U64Digits(u) ==
    LET qr == DivMod10(u)
    IN  IF qr.q = U64Zero THEN <<qr.r>> ELSE Append(U64Digits(qr.q), qr.r)

\* decimal.Assign
DecAssign(u) ==
    IF u = U64Zero THEN DecZero
    ELSE LET ds == U64Digits(u) IN DecTrim([d |-> ds, dp |-> Len(ds)])

\* shouldRoundUp(a, nd): round to nd digits, halfway goes to even
ShouldRoundUp(a, nd) ==
    IF nd < 0 \/ nd >= Len(a.d) THEN FALSE
    ELSE IF a.d[nd + 1] = 5 /\ nd + 1 = Len(a.d)
         THEN nd > 0 /\ a.d[nd] % 2 # 0
    ELSE a.d[nd + 1] >= 5

\* decimal.RoundDown, decimal.RoundUp, decimal.Round
DecRoundDown(a, nd) ==
    IF nd < 0 \/ nd >= Len(a.d) THEN a
    ELSE DecTrim([d |-> SubSeq(a.d, 1, nd), dp |-> a.dp])

DecRoundUp(a, nd) ==
    IF nd < 0 \/ nd >= Len(a.d) THEN a
    ELSE IF \A i \in 1..nd : a.d[i] = 9 THEN [d |-> <<1>>, dp |-> a.dp + 1]
    ELSE LET i == CHOOSE i \in 1..nd : a.d[i] < 9 /\ \A j \in (i + 1)..nd : a.d[j] = 9
         IN  [d |-> [j \in 1..i |-> IF j = i THEN a.d[j] + 1 ELSE a.d[j]], dp |-> a.dp]

DecRound(a, nd) ==
    IF nd < 0 \/ nd >= Len(a.d) THEN a
    ELSE IF ShouldRoundUp(a, nd) THEN DecRoundUp(a, nd) ELSE DecRoundDown(a, nd)

\* decimal.RoundedInteger: the integer nearest to a, as a uint64
RECURSIVE DecIntPart(_, _, _)
DecIntPart(a, i, n) ==
    IF i > a.dp THEN n
    ELSE DecIntPart(a, i + 1, MulAdd(n, 10, IF i <= Len(a.d) THEN a.d[i] ELSE 0).val)

DecRoundedInteger(a) ==
    IF a.dp > 20 THEN U64MaxVal(64)
    ELSE LET n == DecIntPart(a, 1, U64Zero)
         IN  IF ShouldRoundUp(a, a.dp) THEN U64Inc(n) ELSE n

(***************************************************************************)
(* The syntax of a decimal floating-point literal (strconv readFloat and   *)
(* decimal.set): [+-] digits [. digits] [(e|E) [+-] digits], with a digit  *)
(* in the mantissa.  Hexadecimal mantissas are not decimal literals.       *)
(***************************************************************************)
\* the mantissa loop of decimal.set from character i; m is what was read:
\* the digits d without leading zeros, the decimal point dp, and the flags
RECURSIVE SetMantissa(_, _, _)
SetMantissa(t, i, m) ==
    IF i > Len(t) THEN [m EXCEPT !.i = i]
    ELSE IF t[i] = "."
         THEN IF m.sawdot THEN [m EXCEPT !.i = i]
              ELSE SetMantissa(t, i + 1, [m EXCEPT !.sawdot = TRUE, !.dp = Len(m.d)])
    ELSE IF IsDigit(t[i])
         THEN IF t[i] = "0" /\ m.d = <<>>
              THEN SetMantissa(t, i + 1, [m EXCEPT !.sawdigits = TRUE, !.dp = m.dp - 1])
              ELSE SetMantissa(t, i + 1,
                      [m EXCEPT !.sawdigits = TRUE, !.d = Append(m.d, DigitVal(t[i]))])
    ELSE [m EXCEPT !.i = i]

\* the exponent's value; strconv stops accumulating at 10000
RECURSIVE ExpDigits(_, _, _)
ExpDigits(t, i, e) ==
    IF i > Len(t) THEN e
    ELSE ExpDigits(t, i + 1, IF e < 10000 THEN e * 10 + DigitVal(t[i]) ELSE e)

\* the optional exponent and the end of the literal, after the mantissa m
SetExponent(t, neg, m) ==
    LET bad  == [ok |-> FALSE, neg |-> FALSE, a |-> DecZero]
        dp   == IF m.sawdot THEN m.dp ELSE Len(m.d)
        i    == m.i
        sign == i + 1 <= Len(t) /\ (t[i + 1] = "+" \/ t[i + 1] = "-")
        from == IF sign THEN i + 2 ELSE i + 1
    IN  IF ~m.sawdigits THEN bad
        ELSE IF i > Len(t)
             THEN [ok |-> TRUE, neg |-> neg, a |-> DecTrim([d |-> m.d, dp |-> dp])]
        ELSE IF Lower(t[i]) # "e" \/ from > Len(t)
                \/ \E j \in from..Len(t) : ~IsDigit(t[j])
             THEN bad
        ELSE [ok |-> TRUE, neg |-> neg,
              a |-> DecTrim([d  |-> m.d,
                             dp |-> IF sign /\ t[i + 1] = "-"
                                    THEN dp - ExpDigits(t, from, 0)
                                    ELSE dp + ExpDigits(t, from, 0)])]

ReadFloat(t) ==
    IF t = <<>> THEN [ok |-> FALSE, neg |-> FALSE, a |-> DecZero]
    ELSE SetExponent(t, t[1] = "-",
            SetMantissa(t, IF t[1] = "+" \/ t[1] = "-" THEN 2 ELSE 1,
                        [d |-> <<>>, dp |-> 0, sawdot |-> FALSE,
                         sawdigits |-> FALSE, i |-> 0]))

(***************************************************************************)
(* IEEE 754 binary32 and binary64 (strconv's floatInfo).  A float is       *)
(* [cls, neg, mant, exp]: cls is "fin", "inf" or "nan"; a finite one is    *)
(* mant * 2^(exp - mantbits) with the hidden bit in mant, and exp is       *)
(* bias + 1 for zero and the denormals.                                    *)
(***************************************************************************)
FloatInfo(bitSize) ==
    IF bitSize = 32 THEN [mantbits |-> 23, expbits |-> 8, bias |-> 0 - 127]
    ELSE [mantbits |-> 52, expbits |-> 11, bias |-> 0 - 1023]

Fin(neg, mant, exp) == [cls |-> "fin", neg |-> neg, mant |-> mant, exp |-> exp]
Inf(neg) == [cls |-> "inf", neg |-> neg, mant |-> U64Zero, exp |-> 0]
NaN == [cls |-> "nan", neg |-> FALSE, mant |-> U64Zero, exp |-> 0]

\* powtab of decimal.floatBits: how many bits to shift for a decimal exponent
PowTab == <<1, 3, 6, 9, 13, 16, 19, 23, 26>>

PowStep(dp) == IF dp >= Len(PowTab) THEN 27 ELSE PowTab[dp + 1]

\* what decimal.floatBits returns
Rounded(f, overflow) == [f |-> f, overflow |-> overflow]

\* the mantissa m read off the decimal: rounding might have added a bit;
\* without the hidden bit the float is denormal
FloatBitsPack(neg, m, exp, flt) ==
    LET up   == m = U64Pow2(flt.mantbits + 1)
        mant == IF up THEN U64Shr1(m) ELSE m
        exp3 == IF up THEN exp + 1 ELSE exp
    IN  IF exp3 - flt.bias >= 2 ^ flt.expbits - 1 THEN Rounded(Inf(neg), TRUE)
        ELSE IF U64Less(mant, U64Pow2(flt.mantbits))
             THEN Rounded(Fin(neg, mant, flt.bias + 1), FALSE)
        ELSE Rounded(Fin(neg, mant, exp3), FALSE)

\* a in [1, 2) * 2^exp, or below that for a denormal: extract 1 + mantbits bits
FloatBitsRound(neg, a, exp, flt) ==
    IF exp - flt.bias >= 2 ^ flt.expbits - 1 THEN Rounded(Inf(neg), TRUE)
    ELSE FloatBitsPack(neg, DecRoundedInteger(DecShift(a, 1 + flt.mantbits)), exp, flt)

\* a in [0.5, 1) * 2^exp: the range of floating point is [1, 2), and the
\* smallest exponent is bias + 1: a smaller one moves up to it
FloatBitsDenormal(neg, a, exp, flt) ==
    IF exp - 1 < flt.bias + 1
    THEN FloatBitsRound(neg, DecShift(a, 0 - (flt.bias + 1 - (exp - 1))), flt.bias + 1, flt)
    ELSE FloatBitsRound(neg, a, exp - 1, flt)

\* scale by powers of two until the decimal is in [0.5, 1)
RECURSIVE ScaleUp(_, _, _, _)
ScaleUp(neg, a, exp, flt) ==
    IF a.dp < 0 \/ (a.dp = 0 /\ a.d[1] < 5)
    THEN ScaleUp(neg, DecShift(a, PowStep(0 - a.dp)), exp - PowStep(0 - a.dp), flt)
    ELSE FloatBitsDenormal(neg, a, exp, flt)

RECURSIVE ScaleDown(_, _, _, _)
ScaleDown(neg, a, exp, flt) ==
    IF a.dp > 0
    THEN ScaleDown(neg, DecShift(a, 0 - PowStep(a.dp)), exp + PowStep(a.dp), flt)
    ELSE ScaleUp(neg, a, exp, flt)

\* decimal.floatBits: the float nearest to a, and whether it overflowed
FloatBits(neg, a, flt) ==
    IF a.d = <<>> THEN Rounded(Fin(neg, U64Zero, flt.bias + 1), FALSE)
    ELSE IF a.dp > 310 THEN Rounded(Inf(neg), TRUE)
    ELSE IF a.dp < 0 - 330 THEN Rounded(Fin(neg, U64Zero, flt.bias + 1), FALSE)
    ELSE ScaleDown(neg, a, 0, flt)

\* float64(f) of a float32 f: the same value in binary64
RECURSIVE Normalize64(_, _, _)
Normalize64(neg, mant, exp) ==
    IF U64Less(mant, U64Pow2(52)) THEN Normalize64(neg, U64Shl1(mant), exp - 1)
    ELSE Fin(neg, mant, exp)

Widen(f) ==
    IF f.cls # "fin" THEN f
    ELSE IF f.mant = U64Zero THEN Fin(f.neg, U64Zero, FloatInfo(64).bias + 1)
    ELSE Normalize64(f.neg, f.mant, f.exp + 29)

\* float32(x) of a float64 x that holds a float32 value (the conversion is
\* then exact; the 32-bit constants of this package hold nothing else)
Narrow(x) ==
    IF x.cls # "fin" THEN x
    ELSE IF x.mant = U64Zero THEN Fin(x.neg, U64Zero, FloatInfo(32).bias + 1)
    ELSE LET minexp == FloatInfo(32).bias + 1
         IN  IF x.exp >= minexp THEN Fin(x.neg, U64Shr(x.mant, 29), x.exp)
             ELSE Fin(x.neg, U64Shr(x.mant, 29 + (minexp - x.exp)), minexp)

\* Narrow loses nothing
NarrowExact(x) == Widen(Narrow(x)) = x

(***************************************************************************)
(* strconv.ParseFloat(s, bitSize): [err, x], x a float64.                  *)
(***************************************************************************)
LitInf == <<"i", "n", "f">>
LitInfinity == <<"i", "n", "f", "i", "n", "i", "t", "y">>
LitNaN == <<"n", "a", "n">>

\* strconv special: inf, infinity (with a sign or none) and nan, in any case
SpecialBody(l) == IF l # <<>> /\ (l[1] = "+" \/ l[1] = "-") THEN Tail(l) ELSE l

IsSpecial(l) == SpecialBody(l) = LitInf \/ SpecialBody(l) = LitInfinity \/ l = LitNaN

SpecialValue(l) == IF l = LitNaN THEN NaN ELSE Inf(l[1] = "-")

\* the float64 ParseFloat returns for what floatBits found at bitSize bits
ParseRounded(b, bitSize) ==
    [err |-> IF b.overflow THEN ErrRange ELSE ErrNone,
     x   |-> IF bitSize = 32 THEN Widen(b.f) ELSE b.f]

ParseDecimal(rf, bitSize) ==
    IF ~rf.ok
    THEN [err |-> ErrSyntax, x |-> Fin(FALSE, U64Zero, FloatInfo(64).bias + 1)]
    ELSE ParseRounded(FloatBits(rf.neg, rf.a, FloatInfo(bitSize)), bitSize)

ParseFloat(t, bitSize) ==
    IF IsSpecial(LowerStr(t)) THEN [err |-> ErrNone, x |-> SpecialValue(LowerStr(t))]
    ELSE ParseDecimal(ReadFloat(t), bitSize)

(***************************************************************************)
(* strconv.FormatFloat(x, 'g', -1, bitSize): the shortest decimal that     *)
(* reads back as x at bitSize bits.                                        *)
(***************************************************************************)
\* digit i (counted from 0) of a, 0 outside the digits
DecDigit(a, i) == IF i >= 0 /\ i < Len(a.d) THEN a.d[i + 1] ELSE 0

\* the digit walk of roundShortest, from digit ui of upper
RECURSIVE ShortestWalk(_, _, _, _, _, _)
ShortestWalk(a, lower, upper, inclusive, ui, upperdelta) ==
    LET mi == ui - upper.dp + a.dp
        li == ui - upper.dp + lower.dp
        l  == DecDigit(lower, li)
        m  == DecDigit(a, mi)
        u  == DecDigit(upper, ui)
        okdown == l # m \/ (inclusive /\ li + 1 = Len(lower.d))
        delta  == IF upperdelta = 0 /\ m + 1 < u THEN 2
                  ELSE IF upperdelta = 0 /\ m # u THEN 1
                  ELSE IF upperdelta = 1 /\ (m # 9 \/ u # 0) THEN 2
                  ELSE upperdelta
        okup   == delta > 0 /\ (inclusive \/ delta > 1 \/ ui + 1 < Len(upper.d))
    IN  IF mi >= Len(a.d) THEN a
        ELSE IF okdown /\ okup THEN DecRound(a, mi + 1)
        ELSE IF okdown THEN DecRoundDown(a, mi + 1)
        ELSE IF okup THEN DecRoundUp(a, mi + 1)
        ELSE ShortestWalk(a, lower, upper, inclusive, ui + 1, delta)

\* roundShortest(d, mant, exp, flt)
RoundShortest(a, mant, exp, flt) ==
    LET minexp == flt.bias + 1
    IN  IF mant = U64Zero THEN DecZero
        ELSE IF exp > minexp
                /\ 332 * (a.dp - Len(a.d)) >= 100 * (exp - flt.mantbits)
             THEN a
        ELSE
          LET upper  == DecShift(DecAssign(U64Inc(U64Shl1(mant))),
                                 exp - flt.mantbits - 1)
              wide   == U64Less(U64Pow2(flt.mantbits), mant) \/ exp = minexp
              mantlo == IF wide THEN U64Dec(mant) ELSE U64Dec(U64Shl1(mant))
              explo  == IF wide THEN exp ELSE exp - 1
              lower  == DecShift(DecAssign(U64Inc(U64Shl1(mantlo))),
                                 explo - flt.mantbits - 1)
          IN  ShortestWalk(a, lower, upper, ~U64IsOdd(mant), 0, 0)

\* %e: d.ddde+dd, with the digits of a and no more
FmtE(neg, a) ==
    LET first1 == IF a.d = <<>> THEN 0 ELSE a.d[1]
        more   == [i \in 1..(Len(a.d) - 1) |-> DigitChar(a.d[i + 1])]
        exp    == IF a.d = <<>> THEN 0 ELSE a.dp - 1
        mag    == IF exp < 0 THEN 0 - exp ELSE exp
    IN  (IF neg THEN <<"-">> ELSE <<>>)
        \o <<DigitChar(first1)>>
        \o (IF Len(a.d) > 1 THEN <<".">> \o more ELSE <<>>)
        \o <<"e", IF exp < 0 THEN "-" ELSE "+">>
        \o (IF mag < 10 THEN <<"0">> ELSE <<>>) \o NatText(mag)

\* %f: ddd.ddd, with the digits of a and no more
FmtF(neg, a) ==
    LET n    == Len(a.d)
        intp == IF a.dp > 0
                THEN [i \in 1..a.dp |-> DigitChar(DecDigit(a, i - 1))]
                ELSE <<"0">>
        prec == IF n - a.dp > 0 THEN n - a.dp ELSE 0
        frac == [i \in 1..prec |-> DigitChar(DecDigit(a, a.dp + i - 1))]
    IN  (IF neg THEN <<"-">> ELSE <<>>) \o intp
        \o (IF prec > 0 THEN <<".">> \o frac ELSE <<>>)

\* %e is used if the exponent is less than -4 or at least 6
FmtG(neg, a) ==
    LET exp == a.dp - 1
    IN  IF exp < 0 - 4 \/ exp >= 6 THEN FmtE(neg, a) ELSE FmtF(neg, a)

\* the digits of f, a finite float of the format flt
FormatFinite(f, flt) ==
    FmtG(f.neg, RoundShortest(DecShift(DecAssign(f.mant), f.exp - flt.mantbits),
                              f.mant, f.exp, flt))

FormatFloat(x, bitSize) ==
    IF x.cls = "nan" THEN <<"N", "a", "N">>
    ELSE IF x.cls = "inf"
         THEN (IF x.neg THEN <<"-">> ELSE <<"+">>) \o <<"I", "n", "f">>
    ELSE FormatFinite(IF bitSize = 32 THEN Narrow(x) ELSE x, FloatInfo(bitSize))

(***************************************************************************)
(* NewFloat(typ, s)                                                        *)
(***************************************************************************)
FloatConst(ty, x) == [variant |-> "Float", typ |-> ty, x |-> x]

MsgFloatType == "invalid type %q for floating point constant"
MsgFloatWidth == "not yet implemented; support for %q floating point constants"
MsgFloatParse == "unable to parse floating point constant %q; %v"
MsgFloatPrecision == "invalid floating point constant %q for type %q; precision loss"

\* the precision check left out
PrecisionLostNever(x, size) == FALSE

\* the comparison that verifies that there was no precision loss
PrecisionLost(x, size) ==
    size # 64 /\ FormatFloat(x, size) # FormatFloat(x, 64)

\* NewFloat once strconv.ParseFloat has returned r
NewFloatParsed(ty, r) ==
    IF r.err # ErrNone THEN Error(MsgFloatParse, r.err)
    ELSE IF PrecisionLost(r.x, ty.size) THEN Error(MsgFloatPrecision, ErrNone)
    ELSE Ok(FloatConst(ty, r.x))

NewFloat(ty, t) ==
    IF ty.kind # "float" THEN Error(MsgFloatType, ErrNone)
    ELSE IF ty.size # 32 /\ ty.size # 64 THEN Panic(MsgFloatWidth)
    ELSE NewFloatParsed(ty, ParseFloat(t, ty.size))

(***************************************************************************)
(* Float.String                                                            *)
(***************************************************************************)
\* the decimal point always appended, also after an exponent
InsertPointAtEnd(t) == IF Contains(t, ".") THEN t ELSE t \o <<".", "0">>

\* insert the decimal point if not present: 3e4 -> 3.0e4, 42 -> 42.0
InsertPoint(t) ==
    IF Contains(t, ".") THEN t
    ELSE LET pos == IndexByte(t, "e")
         IN  IF pos # 0
             THEN SubSeq(t, 1, pos - 1) \o <<".", "0">> \o SubSeq(t, pos, Len(t))
             ELSE t \o <<".", "0">>

\* strings.Replace(t, "e+", "e", -1), scanning from position i
RECURSIVE DropPlus(_, _)
DropPlus(t, i) ==
    IF i > Len(t) THEN <<>>
    ELSE IF i < Len(t) /\ t[i] = "e" /\ t[i + 1] = "+"
         THEN <<"e">> \o DropPlus(t, i + 2)
    ELSE <<t[i]>> \o DropPlus(t, i + 1)

\* the text of the constant, or a panic for a width the package does not format
FloatString(c) ==
    IF c.typ.size # 32 /\ c.typ.size # 64
    THEN [panic |-> TRUE, text |-> <<>>]
    ELSE [panic |-> FALSE,
          text  |-> TypeText(ConstType(c)) \o <<" ">>
                    \o DropPlus(InsertPoint(FormatFloat(c.x, c.typ.size)), 1)]

(***************************************************************************)
(* The kinds of error of the design (TypeKindMismatch, InvalidLiteral,     *)
(* TypeMismatch, OutOfRange, PrecisionLoss, ...) as the package reports    *)
(* them: by the message of the error and the strconv error it wraps.       *)
(***************************************************************************)
ErrKind(r) ==
    CASE r.status # "error" -> "none"
      [] r.status = "error" /\ r.msg \in {MsgIntType, MsgFloatType} -> "TypeKindMismatch"
      [] r.status = "error" /\ r.msg = MsgIntBool -> "InvalidLiteral"
      [] r.status = "error" /\ r.msg = MsgIntMismatch -> "TypeMismatch"
      [] r.status = "error" /\ r.msg \in {MsgIntParse, MsgFloatParse}
            /\ r.cause = ErrSyntax -> "InvalidLiteral"
      [] r.status = "error" /\ r.msg \in {MsgIntParse, MsgFloatParse}
            /\ r.cause = ErrRange -> "OutOfRange"
      [] r.status = "error" /\ r.msg = MsgFloatPrecision -> "PrecisionLoss"
      [] OTHER -> "unknown"

(***************************************************************************)
(* The inputs: type descriptors and literals.                              *)
(***************************************************************************)
IntSizes == {1, 2, 3, 8, 32, 63, 64, 65, 128}
FloatSizes == {16, 32, 64, 128}

Types == {IntType(n) : n \in IntSizes} \cup {FloatType(n) : n \in FloatSizes}
         \cup {PointerType}

Alphabet == {"0", "1", "2", "-", ".", "e"}

\* every string over Alphabet of length at most MaxLen
Generated == UNION {[1..k -> Alphabet] : k \in 0..MaxLen}

Named == {
    LitTrue, LitFalse, <<"T", "r", "u", "e">>,
    <<"+", "1">>, <<"+", "0", "0", "7">>, <<"4", "2">>, <<"-", "3", "7">>,
    <<"1", "2", "7">>, <<"1", "2", "8">>, <<"-", "1", "2", "8">>, <<"-", "1", "2", "9">>,
    <<"3", "0", "0", "x">>,
    <<"9", "2", "2", "3", "3", "7", "2", "0", "3", "6", "8", "5", "4", "7", "7", "5", "8", "0", "7">>,
    <<"9", "2", "2", "3", "3", "7", "2", "0", "3", "6", "8", "5", "4", "7", "7", "5", "8", "0", "8">>,
    <<"-", "9", "2", "2", "3", "3", "7", "2", "0", "3", "6", "8", "5", "4", "7", "7", "5", "8", "0", "8">>,
    <<"-", "9", "2", "2", "3", "3", "7", "2", "0", "3", "6", "8", "5", "4", "7", "7", "5", "8", "0", "9">>,
    <<"1", "8", "4", "4", "6", "7", "4", "4", "0", "7", "3", "7", "0", "9", "5", "5", "1", "6", "1", "6">>,
    <<"u", "0", "x", "1", "F">>, <<"s", "0", "x", "f", "f">>,
    <<"0", "x", "1", "F">>, <<"0", "x", "K", "3", "f">>,
    <<"3", ".", "1", "4">>, <<"2", ".", "5">>, <<"3", "e", "4">>, <<"3", "e", "6">>,
    <<"2", ".", "5", "e", "+", "1", "0">>, <<"-", "2", ".", "5", "e", "1", "0">>,
    <<"1", "e", "-", "5">>, <<"1", "2", "3", ".", "4", "5">>, <<"1", ".", "2", "3", "4", "5", "e", "2">>,
    <<"1", "6", "7", "7", "7", "2", "1", "7">>, <<"1", "e", "3", "9">>, <<"1", "e", "9", "9", "9">>,
    <<"1", "E", "-", "4", "6">>,
    LitInf, LitNaN, <<"-", "I", "n", "f">>, <<"+", "i", "n", "f", "i", "n", "i", "t", "y">>,
    <<"0", ".", "1", "0", "0", "0", "0", "0", "0", "0", "0", "0", "0", "0", "0", "0", "0", "0",
      "0", "5", "5", "5", "1", "1", "1", "5", "1", "2", "3", "1", "2", "5", "7", "8", "2", "7",
      "0", "2", "1", "1", "8", "1", "5", "8", "3", "4", "0", "4", "5", "4", "1", "0", "1", "5",
      "6", "2", "5">>
}

Literals == Generated \cup Named

(***************************************************************************)
(* The state machine: a caller picks a type and a literal, calls one of    *)
(* the constructors, formats the constant it got, and may hand the         *)
(* formatted value back to the same constructor.                           *)
(*   fn    the constructor called last: "NewInt", "NewFloat" or "none"     *)
(*   pc    "idle", "built" (a constructor returned), "shown" (String       *)
(*         returned) or "panic" (the call panicked)                        *)
(*   ret   what the constructor returned                                   *)
(*   str   what String returned                                            *)
(*   first what String returned for the first constant                     *)
(*   round how many times the text was handed back                         *)
(***************************************************************************)
Init ==
    /\ typ \in Types
    /\ s \in Literals
    /\ fn = "none"
    /\ pc = "idle"
    /\ ret = NoCall
    /\ str = <<>>
    /\ first = <<>>
    /\ round = 0

\* where a call of a constructor ends
After(r) == IF r.status = "panic" THEN "panic" ELSE "built"

CallNewInt ==
    /\ pc = "idle"
    /\ round = 0 \/ fn = "NewInt"
    /\ fn' = "NewInt"
    /\ ret' = NewInt(typ, s)
    /\ pc' = After(ret')
    /\ UNCHANGED <<typ, s, str, first, round>>

CallNewFloat ==
    /\ pc = "idle"
    /\ round = 0 \/ fn = "NewFloat"
    /\ fn' = "NewFloat"
    /\ ret' = NewFloat(typ, s)
    /\ pc' = After(ret')
    /\ UNCHANGED <<typ, s, str, first, round>>

CallIntString ==
    /\ pc = "built"
    /\ ret.status = "ok"
    /\ ret.c.variant = "Int"
    /\ str' = IntString(ret.c)
    /\ pc' = "shown"
    /\ UNCHANGED <<typ, s, fn, ret, first, round>>

CallFloatString ==
    /\ pc = "built"
    /\ ret.status = "ok"
    /\ ret.c.variant = "Float"
    /\ str' = FloatString(ret.c).text
    /\ pc' = IF str' = <<>> THEN "panic" ELSE "shown"
    /\ UNCHANGED <<typ, s, fn, ret, first, round>>

\* the value-text of "<type-text> <value-text>"
ValueText(t) == SubSeq(t, IndexByte(t, " ") + 1, Len(t))

\* hand the formatted value back to the constructor, with the constant's type
Reparse ==
    /\ pc = "shown"
    /\ round < MaxRounds
    /\ s' = ValueText(str)
    /\ typ' = ConstType(ret.c)
    /\ first' = IF round = 0 THEN str ELSE first
    /\ round' = round + 1
    /\ pc' = "idle"
    /\ UNCHANGED <<fn, ret, str>>

Next == CallNewInt \/ CallNewFloat \/ CallIntString \/ CallFloatString \/ Reparse

Spec == Init /\ [][Next]_vars

(***************************************************************************)
(* Decimal integers as texts, for stating what NewInt and Int.String do    *)
(* without the arithmetic of the model.                                    *)
(***************************************************************************)
\* t is base-10 text of an integer: an optional sign and at least one digit
IsDecimalText(t) ==
    LET body == IF t # <<>> /\ t[1] \in {"+", "-"} THEN Tail(t) ELSE t
    IN  body # <<>> /\ \A i \in 1..Len(body) : IsDigit(body[i])

RECURSIVE StripZeros(_)
StripZeros(d) == IF Len(d) > 1 /\ d[1] = "0" THEN StripZeros(Tail(d)) ELSE d

\* the digits of |n|, without leading zeros
Magnitude(t) == StripZeros(IF t[1] \in {"+", "-"} THEN Tail(t) ELSE t)

IsNegative(t) == t[1] = "-" /\ Magnitude(t) # <<"0">>

\* the canonical signed decimal text of n
CanonicalText(t) == (IF IsNegative(t) THEN <<"-">> ELSE <<>>) \o Magnitude(t)

\* the digits of 2 * n from the digits of n
TextDouble(d) ==
    LET carry(i) == IF i < Len(d) /\ DigitVal(d[i + 1]) >= 5 THEN 1 ELSE 0
    IN  (IF DigitVal(d[1]) >= 5 THEN <<"1">> ELSE <<>>)
        \o [i \in 1..Len(d) |-> DigitChar((2 * DigitVal(d[i]) + carry(i)) % 10)]

\* the digits of n * 2^k from the digits d of n
RECURSIVE TextShift(_, _)
TextShift(d, k) == IF k = 0 \/ d = <<>> THEN d ELSE TextShift(TextDouble(d), k - 1)

\* the digits of 2^k
Pow2Text(k) == TextShift(<<"1">>, k)

\* a < b, for digits without leading zeros
TextLess(a, b) ==
    \/ Len(a) < Len(b)
    \/ /\ Len(a) = Len(b)
       /\ \E i \in 1..Len(a) : /\ SubSeq(a, 1, i - 1) = SubSeq(b, 1, i - 1)
                               /\ DigitVal(a[i]) < DigitVal(b[i])

\* -2^(w-1) <= n <= 2^(w-1) - 1
InRange(t, w) ==
    \/ TextLess(Magnitude(t), Pow2Text(w - 1))
    \/ IsNegative(t) /\ Magnitude(t) = Pow2Text(w - 1)

\* a constructor has been called with typ and s, and ret is what it gave
Called(f) == fn = f /\ pc \in {"built", "shown", "panic"}

One == Int64(FALSE, U64Small(1))

BoolLiterals == {<<"0">>, <<"1">>, LitTrue, LitFalse}

(***************************************************************************)
(* Integer constants.                                                      *)
(***************************************************************************)
\* C1: for an integer type of width w in 2..64 and a literal that is base-10
\* text of an integer n in [-2^(w-1), 2^(w-1)-1], leading '+' and leading
\* zeros included, NewInt succeeds and String() of the result is the text of
\* the type, a space and the canonical signed decimal text of n.
C1_DecimalRoundTrip ==
    (/\ Called("NewInt")
     /\ typ.kind = "int" /\ typ.size \in 2..64
     /\ IsDecimalText(s) /\ InRange(s, typ.size))
    => /\ pc # "panic"
       /\ ret.status = "ok"
       /\ ret.c.variant = "Int"
       /\ ConstType(ret.c) = typ
       /\ pc = "shown" => str = TypeText(typ) \o <<" ">> \o CanonicalText(s)

\* "+007" at i8 has been built and printed as "i8 7"
C1_Witness ==
    /\ Called("NewInt") /\ pc = "shown"
    /\ typ = IntType(8) /\ s = <<"+", "0", "0", "7">>
    /\ str = <<"i", "8", " ", "7">>

\* C2: at width 1 NewInt succeeds exactly for "0", "1", "true" and "false"
\* ("1"/"true" give 1, "0"/"false" give 0) and fails with InvalidLiteral for
\* every other literal; String() of a width-1 constant has the value-text
\* "true" or "false", "true" exactly when the value is 1.
C2_BooleanLiterals ==
    (Called("NewInt") /\ typ = IntType(1))
    => /\ pc # "panic"
       /\ ret.status = "ok" <=> s \in BoolLiterals
       /\ s \in {<<"1">>, LitTrue} => ret.c.x = One
       /\ s \in {<<"0">>, LitFalse} => ret.c.x = Int64Zero
       /\ s \notin BoolLiterals
            => ret.status = "error" /\ ErrKind(ret) = "InvalidLiteral"
       /\ pc = "shown"
            => /\ ValueText(str) \in {LitTrue, LitFalse}
               /\ ValueText(str) = LitTrue <=> ret.c.x = One

\* "1" at i1 has been built and printed as "i1 true"
C2_Witness ==
    /\ Called("NewInt") /\ pc = "shown"
    /\ typ = IntType(1) /\ s = <<"1">>
    /\ str = <<"i", "1", " ">> \o LitTrue

\* C4: for an integer type of width 2..64, NewInt with the literal "true" or
\* "false" fails with TypeMismatch and returns no constant: the keyword is
\* neither coerced to 1/0 nor reported as a malformed literal.
C4_BooleanKeywordMismatch ==
    (/\ Called("NewInt")
     /\ typ.kind = "int" /\ typ.size \in 2..64
     /\ s \in {LitTrue, LitFalse})
    => /\ pc = "built"
       /\ ret.status = "error"
       /\ ErrKind(ret) = "TypeMismatch"
       /\ ret.c = NoConst

\* "true" at i32 has been refused with the type-mismatch error
C4_Witness ==
    /\ Called("NewInt") /\ pc = "built"
    /\ typ = IntType(32) /\ s = LitTrue
    /\ ret.msg = MsgIntMismatch

\* C3: an Int constant returned by NewInt holds a value in the signed range
\* of its width ({0,1} at width 1); a decimal literal outside the range fails
\* with OutOfRange and a malformed literal with InvalidLiteral (width 8: "127"
\* and "-128" succeed, "128" and "-129" fail with OutOfRange).
C3_RangeAndErrorKinds ==
    (Called("NewInt") /\ typ.kind = "int" /\ typ.size \in 1..64)
    => /\ (ret.status = "ok" /\ typ.size > 1)
            => \/ U64Less(ret.c.x.mag, U64Pow2(typ.size - 1))
               \/ ret.c.x.neg /\ ret.c.x.mag = U64Pow2(typ.size - 1)
       /\ (ret.status = "ok" /\ typ.size = 1) => ret.c.x \in {Int64Zero, One}
       /\ (typ.size > 1 /\ IsDecimalText(s) /\ ~InRange(s, typ.size))
            => ret.status = "error" /\ ErrKind(ret) = "OutOfRange"
       /\ (typ.size > 1 /\ ~IsDecimalText(s) /\ s \notin {LitTrue, LitFalse})
            => ret.status = "error" /\ ErrKind(ret) = "InvalidLiteral"
       /\ (typ.size = 8 /\ s \in {<<"1", "2", "7">>, <<"-", "1", "2", "8">>})
            => ret.status = "ok"
       /\ (typ.size = 8 /\ s \in {<<"1", "2", "8">>, <<"-", "1", "2", "9">>})
            => ErrKind(ret) = "OutOfRange"

(***************************************************************************)
(* Unsupported widths and literal forms.                                   *)
(***************************************************************************)
\* C5: NewInt with a width above 64 and NewFloat with a width other than 32
\* or 64 return an UnsupportedWidth error for every literal, and no call of
\* NewInt, NewFloat or Float.String panics.
C5_UnsupportedWidthIsAnError ==
    /\ pc # "panic"
    /\ ((Called("NewInt") /\ typ.kind = "int" /\ typ.size > 64)
        \/ (Called("NewFloat") /\ typ.kind = "float" /\ typ.size \notin {32, 64}))
         => ret.status = "error" /\ ErrKind(ret) = "UnsupportedWidth"

IsHexDigit(c) ==
    IsDigit(c) \/ c \in {"a", "b", "c", "d", "e", "f", "A", "B", "C", "D", "E", "F"}

\* t has at least one character from position i on, all hexadecimal digits
HexFrom(t, i) == i <= Len(t) /\ \A j \in i..Len(t) : IsHexDigit(t[j])

\* [us]0x[0-9A-Fa-f]+
IsHexInt(t) ==
    Len(t) >= 4 /\ t[1] \in {"u", "s"} /\ t[2] = "0" /\ t[3] = "x" /\ HexFrom(t, 4)

\* 0x[KLMH]?[0-9A-Fa-f]+
IsHexFloat(t) ==
    /\ Len(t) >= 3 /\ t[1] = "0" /\ t[2] = "x"
    /\ HexFrom(t, 3) \/ (t[3] \in {"K", "L", "M", "H"} /\ HexFrom(t, 4))

\* C7: NewInt with a literal [us]0x[0-9A-Fa-f]+ and NewFloat with a literal
\* 0x[KLMH]?[0-9A-Fa-f]+ fail, return no constant, and fail with the kind
\* UnsupportedLiteralForm, which is not the InvalidLiteral of malformed text.
C7_HexLiteralsUnsupported ==
    (\/ Called("NewInt") /\ typ.kind = "int" /\ typ.size \in 2..64 /\ IsHexInt(s)
     \/ Called("NewFloat") /\ typ.kind = "float" /\ typ.size \in {32, 64}
          /\ IsHexFloat(s))
    => /\ ret.status = "error"
       /\ ret.c = NoConst
       /\ ErrKind(ret) = "UnsupportedLiteralForm"
       /\ ErrKind(ret) # "InvalidLiteral"

(***************************************************************************)
(* Floating point constants.                                               *)
(***************************************************************************)
Float32 == FloatType(32)

Double == FloatType(64)

Lit314 == <<"3", ".", "1", "4">>

\* the double nearest to 0.1, written out in full
LitTenthExact ==
    <<"0", ".", "1", "0", "0", "0", "0", "0", "0", "0", "0", "0", "0", "0", "0", "0", "0", "0",
      "0", "5", "5", "5", "1", "1", "1", "5", "1", "2", "3", "1", "2", "5", "7", "8", "2", "7",
      "0", "2", "1", "1", "8", "1", "5", "8", "3", "4", "0", "4", "5", "4", "1", "0", "1", "5",
      "6", "2", "5">>

\* the shortest renderings of t parsed at 32 and at 64 bits exist and differ
LiteralRendersDifferently(p32, p64) ==
    /\ p32.err = ErrNone /\ p64.err = ErrNone
    /\ FormatFloat(p32.x, 32) # FormatFloat(p64.x, 64)

\* for the 32-bit value x with the shortest 32-bit rendering t32: whether t32
\* is not the shortest 64-bit rendering of x, and whether t32 read at 64 bits
\* is another number than x
RenderingVerdicts(x, t32) ==
    <<t32 # FormatFloat(x, 64), ParseFloat(t32, 64).x # x>>

\* the same for the outcome p of parsing a literal at 32 bits
ValueVerdicts(p) ==
    IF p.err # ErrNone THEN <<FALSE, FALSE>>
    ELSE RenderingVerdicts(p.x, FormatFloat(p.x, 32))

HasPoint(t) == \E i \in 1..Len(t) : t[i] = "."

HasExponent(t) == \E i \in 1..Len(t) : t[i] = "e"

\* rule (1): ".0" before the exponent marker, or at the end without one
WithPoint(r) ==
    IF HasPoint(r) THEN r
    ELSE IF HasExponent(r)
         THEN LET e == CHOOSE i \in 1..Len(r) :
                           r[i] = "e" /\ \A j \in 1..(i - 1) : r[j] # "e"
              IN  [i \in 1..(Len(r) + 2) |->
                     IF i < e THEN r[i]
                     ELSE IF i = e THEN "."
                     ELSE IF i = e + 1 THEN "0"
                     ELSE r[i - 2]]
    ELSE r \o <<".", "0">>

\* rule (2): the characters of r other than a '+' right after an 'e'
WithoutPlus(r) ==
    LET kept  == {i \in 1..Len(r) : ~(i > 1 /\ r[i] = "+" /\ r[i - 1] = "e")}
        nth(j) == CHOOSE i \in kept : Cardinality({k \in kept : k <= i}) = j
    IN  [j \in 1..Cardinality(kept) |-> r[nth(j)]]

HasExpPlus(t) == \E i \in 1..(Len(t) - 1) : t[i] = "e" /\ t[i + 1] = "+"

\* the rules of Float.String, for the constant just printed
FloatStringRules(r, vt) ==
    /\ str = TypeText(typ) \o <<" ">> \o vt
    /\ vt = WithoutPlus(WithPoint(r))
    /\ HasPoint(vt)
    /\ ~HasExpPlus(vt)
    /\ HasPoint(r) => vt = WithoutPlus(r)

FloatShown == fn = "NewFloat" /\ pc = "shown"

Lit3e4 == <<"3", "e", "4">>

\* C8 as stated: Float.String gives the type text, a space and the shortest
\* rendering with (1) ".0" put before the exponent marker, or appended when
\* there is none, if the rendering has no point, then (2) every "e+" made
\* "e"; the value-text has a '.', has no "e+", and a rendering with a point
\* changes by rule (2) only; "3e4" at double prints as "double 3.0e4".
C8_CanonicalExample3e4 ==
    FloatShown
    => /\ FloatStringRules(FormatFloat(ret.c.x, typ.size), ValueText(str))
       /\ (typ = Double /\ s = Lit3e4)
            => str = <<"d", "o", "u", "b", "l", "e", " ", "3", ".", "0", "e", "4">>

\* C8, amended: the same rules; "3e4" at double prints as "double 30000.0"
\* (the shortest rendering has an exponent only from 1e6 on and below 1e-4,
\* and then of at least two digits), "3e6" at double as "double 3.0e06".
C8_Canonical ==
    FloatShown
    => /\ FloatStringRules(FormatFloat(ret.c.x, typ.size), ValueText(str))
       /\ (typ = Double /\ s = Lit3e4)
            => str = <<"d", "o", "u", "b", "l", "e", " ", "3", "0", "0", "0", "0", ".", "0">>
       /\ (typ = Double /\ s = <<"3", "e", "6">>)
            => str = <<"d", "o", "u", "b", "l", "e", " ", "3", ".", "0", "e", "0", "6">>

\* "3e6" at double has been printed as "double 3.0e06"
C8_Witness ==
    /\ FloatShown
    /\ typ = Double /\ s = <<"3", "e", "6">>
    /\ str = <<"d", "o", "u", "b", "l", "e", " ", "3", ".", "0", "e", "0", "6">>

(***************************************************************************)
(* The format/parse round trip.                                            *)
(***************************************************************************)
\* C10: for a constant c returned by NewInt or NewFloat ("inf" and "nan"
\* included), the same constructor called with c's type and the value-text
\* of c.String() succeeds and gives a constant whose String() is c.String().
C10_FormatParseRoundTrip ==
    (round >= 1 /\ pc \in {"built", "shown", "panic"})
    => /\ pc # "panic"
       /\ ret.status = "ok"
       /\ pc = "shown" => str = first

====
